---- MODULE Spec2Model ----
(***************************************************************************)
(* Model of the toy-payments-engine ledger (src/src/lib.rs).               *)
(*                                                                         *)
(* Txs owns two hash maps: txs (Txid -> Tx) and accounts (Cid -> Account). *)
(* Both are modelled as functions whose DOMAIN is the set of keys present. *)
(* Decimal values are modelled as integers of one scale in the closed      *)
(* range [-DecimalMAX, DecimalMAX]; checked_add / checked_sub return None  *)
(* (the empty sequence) outside that range, and the unchecked operators    *)
(* (+=, -=) panic outside it.  An Option value is a sequence of length 0   *)
(* (None) or 1 (Some).                                                     *)
(***************************************************************************)
EXTENDS Integers, Sequences, FiniteSets, TLC

VARIABLES txs, accounts, panicked, net, disputeSeen, chargedBack

vars == <<txs, accounts, panicked, net, disputeSeen, chargedBack>>

(***************************************************************************)
(* Bounds of the model.                                                    *)
(***************************************************************************)
\* Largest representable decimal (stands for Decimal::MAX).
DecimalMAX == 2
\* Client ids are 1..MaxCid, transaction ids are 1..MaxTxid.
MaxCid == 2
MaxTxid == 2
\* Transaction ids of the runs of a single client are 1..MaxTxidOneClient.
MaxTxidOneClient == 3

Cids == 1..MaxCid
Txids == 1..MaxTxid
\* Amounts of incoming deposits and withdrawals.  An amount is any Decimal,
\* process_tx does not validate it: the model draws a negative amount, the
\* smallest positive amount and Decimal::MAX.
Amounts == {0 - 1, 1, DecimalMAX}
Decimals == (0 - DecimalMAX)..DecimalMAX

(***************************************************************************)
(* Data types.                                                             *)
(***************************************************************************)
TxKind == {"Deposit", "Withdrawal", "Dispute", "Resolve", "ChargeBack"}

Error == {"MathError", "InsuffienctFunds", "TxAlreadyExists", "TxNotFound",
          "CidMismatch", "TxAlreadyDisputed", "TxNotDisputed",
          "TxMustBeDeposit", "AccountIsLocked", "InvalidTx"}

None == <<>>

Some(v) == <<v>>

Tx(kind, cid, txid, amount) ==
    [kind |-> kind, cid |-> cid, txid |-> txid, amount |-> amount,
     disputed |-> FALSE]

Tx_deposit(cid, txid, amount) == Tx("Deposit", cid, txid, Some(amount))

Tx_withdrawal(cid, txid, amount) == Tx("Withdrawal", cid, txid, Some(amount))

Tx_dispute(cid, txid) == Tx("Dispute", cid, txid, None)

Tx_resolve(cid, txid) == Tx("Resolve", cid, txid, None)

Tx_charge_back(cid, txid) == Tx("ChargeBack", cid, txid, None)

Account(available, held, locked) ==
    [available |-> available, held |-> held, locked |-> locked]

\* #[derive(Default)] on Account: zero balances, unlocked.
Account_default == Account(0, 0, FALSE)

(***************************************************************************)
(* Decimal arithmetic.                                                     *)
(***************************************************************************)
checked_add(a, b) == IF a + b \in Decimals THEN Some(a + b) ELSE None

\* Variant of checked_sub: adds instead of subtracting.
checked_sub_adds(a, b) == IF a + b \in Decimals THEN Some(a + b) ELSE None

checked_sub(a, b) == IF a - b \in Decimals THEN Some(a - b) ELSE None

(***************************************************************************)
(* Hash map helpers.                                                       *)
(***************************************************************************)
\* self.accounts.entry(cid).or_default(): inserts a default account when the
\* key is vacant.
or_default(accs, cid) ==
    IF cid \in DOMAIN accs THEN accs ELSE accs @@ (cid :> Account_default)

\* Variant of is_locked: the lock is never seen.
is_locked_never(accs, cid) == FALSE

\* self.accounts.get(&cid).map_or(false, |account| account.locked)
is_locked(accs, cid) == cid \in DOMAIN accs /\ accs[cid].locked

\* Txs::get
get(cid) == IF cid \in DOMAIN accounts THEN Some(accounts[cid]) ELSE None

\* Outcome of a call: the two maps after it and the value it returned
\* ("Ok", an Error, or "Panic" when the call unwound).
Outcome(t, a, r) == [txs |-> t, accounts |-> a, result |-> r]

(***************************************************************************)
(* The closures process_tx hands to with_tx.  Each receives the referenced  *)
(* stored record and the account of the incoming transaction's client and   *)
(* yields both after the call together with the returned value.  The        *)
(* compound assignments are unchecked: a value outside the Decimal range     *)
(* panics at that statement, keeping the assignments already made.          *)
(***************************************************************************)
ClosureOut(ref_tx, account, r) ==
    [ref_tx |-> ref_tx, account |-> account, result |-> r]

unwrap(opt) == opt[1]

\* Variant of dispute_op: the record is flagged before its kind is checked.
dispute_op_flags_first(ref_tx, account) ==
    IF ~ref_tx.disputed
    THEN IF ref_tx.kind = "Deposit"
         THEN ClosureOut([ref_tx EXCEPT !.disputed = TRUE],
                         [account EXCEPT
                              !.available = @ - unwrap(ref_tx.amount),
                              !.held = @ + unwrap(ref_tx.amount)],
                         "Ok")
         ELSE ClosureOut([ref_tx EXCEPT !.disputed = TRUE], account,
                         "TxMustBeDeposit")
    ELSE ClosureOut(ref_tx, account, "TxAlreadyDisputed")

\* Variant of dispute_op: the kind of the record is not checked.
dispute_op_any_kind(ref_tx, account) ==
    IF ~ref_tx.disputed
    THEN ClosureOut([ref_tx EXCEPT !.disputed = TRUE],
                    [account EXCEPT !.available = @ - unwrap(ref_tx.amount),
                                    !.held = @ + unwrap(ref_tx.amount)],
                    "Ok")
    ELSE ClosureOut(ref_tx, account, "TxAlreadyDisputed")

\* Variant of dispute_op: the disputed flag is not checked.
dispute_op_repeats(ref_tx, account) ==
    IF ref_tx.kind = "Deposit"
    THEN ClosureOut([ref_tx EXCEPT !.disputed = TRUE],
                    [account EXCEPT !.available = @ - unwrap(ref_tx.amount),
                                    !.held = @ + unwrap(ref_tx.amount)],
                    "Ok")
    ELSE ClosureOut(ref_tx, account, "TxMustBeDeposit")

dispute_op(ref_tx, account) ==
    IF ~ref_tx.disputed
    THEN IF ref_tx.kind = "Deposit"
         THEN LET amount == unwrap(ref_tx.amount)
                  available == account.available - amount
                  held == account.held + amount
              IN  IF available \notin Decimals
                  THEN ClosureOut(ref_tx, account, "Panic")
                  ELSE IF held \notin Decimals
                  THEN ClosureOut(ref_tx,
                                  [account EXCEPT !.available = available],
                                  "Panic")
                  ELSE ClosureOut([ref_tx EXCEPT !.disputed = TRUE],
                                  [account EXCEPT !.available = available,
                                                  !.held = held],
                                  "Ok")
         ELSE ClosureOut(ref_tx, account, "TxMustBeDeposit")
    ELSE ClosureOut(ref_tx, account, "TxAlreadyDisputed")

\* Variant of resolve_op: held is not released.
resolve_op_keeps_held(ref_tx, account) ==
    IF ref_tx.disputed
    THEN ClosureOut([ref_tx EXCEPT !.disputed = FALSE],
                    [account EXCEPT !.available = @ + unwrap(ref_tx.amount)],
                    "Ok")
    ELSE ClosureOut(ref_tx, account, "TxNotDisputed")

resolve_op(ref_tx, account) ==
    IF ref_tx.disputed
    THEN LET amount == unwrap(ref_tx.amount)
             available == account.available + amount
             held == account.held - amount
         IN  IF available \notin Decimals
             THEN ClosureOut(ref_tx, account, "Panic")
             ELSE IF held \notin Decimals
             THEN ClosureOut(ref_tx,
                             [account EXCEPT !.available = available],
                             "Panic")
             ELSE ClosureOut([ref_tx EXCEPT !.disputed = FALSE],
                             [account EXCEPT !.available = available,
                                             !.held = held],
                             "Ok")
    ELSE ClosureOut(ref_tx, account, "TxNotDisputed")

\* Variant of charge_back_op: the account is not locked.
charge_back_op_no_lock(ref_tx, account) ==
    IF ref_tx.disputed
    THEN ClosureOut([ref_tx EXCEPT !.disputed = FALSE],
                    [account EXCEPT !.held = @ - unwrap(ref_tx.amount)],
                    "Ok")
    ELSE ClosureOut(ref_tx, account, "TxNotDisputed")

\* Variant of charge_back_op: the amount is taken from available as well.
charge_back_op_debits_available(ref_tx, account) ==
    IF ref_tx.disputed
    THEN ClosureOut([ref_tx EXCEPT !.disputed = FALSE],
                    [account EXCEPT !.available = @ - unwrap(ref_tx.amount),
                                    !.held = @ - unwrap(ref_tx.amount),
                                    !.locked = TRUE],
                    "Ok")
    ELSE ClosureOut(ref_tx, account, "TxNotDisputed")

\* Variant of charge_back_op: the held amount is not withdrawn.
charge_back_op_keeps_held(ref_tx, account) ==
    IF ref_tx.disputed
    THEN ClosureOut([ref_tx EXCEPT !.disputed = FALSE],
                    [account EXCEPT !.locked = TRUE],
                    "Ok")
    ELSE ClosureOut(ref_tx, account, "TxNotDisputed")

\* Variant of charge_back_op: the disputed flag is not checked.
charge_back_op_unchecked(ref_tx, account) ==
    ClosureOut([ref_tx EXCEPT !.disputed = FALSE],
               [account EXCEPT !.held = @ - unwrap(ref_tx.amount),
                               !.locked = TRUE],
               "Ok")

charge_back_op(ref_tx, account) ==
    IF ref_tx.disputed
    THEN LET amount == unwrap(ref_tx.amount)
             held == account.held - amount
         IN  IF held \notin Decimals
             THEN ClosureOut(ref_tx, account, "Panic")
             ELSE ClosureOut([ref_tx EXCEPT !.disputed = FALSE],
                             [account EXCEPT !.held = held, !.locked = TRUE],
                             "Ok")
    ELSE ClosureOut(ref_tx, account, "TxNotDisputed")

(***************************************************************************)
(* Function values.  process_operation receives the checked operation and   *)
(* with_tx the closure as an argument; an argument of function type is      *)
(* modelled by the name of the function and a call of it by a dispatch on   *)
(* that name.                                                               *)
(***************************************************************************)
call_checked_op(checked_op, a, b) ==
    IF checked_op = "checked_add" THEN checked_add(a, b) ELSE checked_sub(a, b)

call_op(op, ref_tx, account) ==
    IF op = "dispute_op" THEN dispute_op(ref_tx, account)
    ELSE IF op = "resolve_op" THEN resolve_op(ref_tx, account)
    ELSE charge_back_op(ref_tx, account)

(***************************************************************************)
(* Txs::process_operation, Txs::with_tx and Txs::process_tx.               *)
(***************************************************************************)
\* Variant of process_operation: the entry is inserted whether or not the
\* id is vacant.
process_operation_overwrites(t, a, tx, amount, checked_op) ==
    LET accs == or_default(a, tx.cid)
        account == accs[tx.cid]
        new_available == call_checked_op(checked_op, account.available, amount)
    IN  IF new_available # None
        THEN IF unwrap(new_available) < 0
             THEN Outcome(t, accs, "InsuffienctFunds")
             ELSE IF checked_add(unwrap(new_available), account.held) # None
             THEN Outcome((tx.txid :> tx) @@ t,
                          [accs EXCEPT ![tx.cid].available =
                                           unwrap(new_available)],
                          "Ok")
             ELSE Outcome(t, accs, "MathError")
        ELSE Outcome(t, accs, "MathError")

\* Variant of process_operation: an id counts as used only when the same
\* client stored it.
process_operation_per_client(t, a, tx, amount, checked_op) ==
    LET accs == or_default(a, tx.cid)
        account == accs[tx.cid]
        new_available == call_checked_op(checked_op, account.available, amount)
    IN  IF new_available # None
        THEN IF unwrap(new_available) < 0
             THEN Outcome(t, accs, "InsuffienctFunds")
             ELSE IF tx.txid \notin DOMAIN t \/ t[tx.txid].cid # tx.cid
             THEN IF checked_add(unwrap(new_available), account.held) # None
                  THEN Outcome((tx.txid :> tx) @@ t,
                               [accs EXCEPT ![tx.cid].available =
                                                unwrap(new_available)],
                               "Ok")
                  ELSE Outcome(t, accs, "MathError")
             ELSE Outcome(t, accs, "TxAlreadyExists")
        ELSE Outcome(t, accs, "MathError")

\* Variant of process_operation: the sign of the new available is not
\* checked.
process_operation_no_funds_check(t, a, tx, amount, checked_op) ==
    LET accs == or_default(a, tx.cid)
        account == accs[tx.cid]
        new_available == call_checked_op(checked_op, account.available, amount)
    IN  IF new_available # None
        THEN IF tx.txid \notin DOMAIN t
             THEN IF checked_add(unwrap(new_available), account.held) # None
                  THEN Outcome(t @@ (tx.txid :> tx),
                               [accs EXCEPT ![tx.cid].available =
                                                unwrap(new_available)],
                               "Ok")
                  ELSE Outcome(t, accs, "MathError")
             ELSE Outcome(t, accs, "TxAlreadyExists")
        ELSE Outcome(t, accs, "MathError")

process_operation(t, a, tx, amount, checked_op) ==
    LET accs == or_default(a, tx.cid)
        account == accs[tx.cid]
        new_available == call_checked_op(checked_op, account.available, amount)
    IN  IF new_available # None
        THEN IF unwrap(new_available) < 0
             THEN Outcome(t, accs, "InsuffienctFunds")
             ELSE IF tx.txid \notin DOMAIN t
             THEN IF checked_add(unwrap(new_available), account.held) # None
                  THEN Outcome(t @@ (tx.txid :> tx),
                               [accs EXCEPT ![tx.cid].available =
                                                unwrap(new_available)],
                               "Ok")
                  ELSE Outcome(t, accs, "MathError")
             ELSE Outcome(t, accs, "TxAlreadyExists")
        ELSE Outcome(t, accs, "MathError")

\* Variant of with_tx: an accepted transaction takes the place of the
\* record it refers to.
with_tx_stores_tx(t, a, tx, op) ==
    LET accs == or_default(a, tx.cid)
    IN  IF tx.txid \notin DOMAIN t
        THEN Outcome(t, accs, "TxNotFound")
        ELSE IF t[tx.txid].cid = tx.cid
        THEN LET o == call_op(op, t[tx.txid], accs[tx.cid])
             IN  Outcome([t EXCEPT ![tx.txid] =
                                       IF o.result = "Ok" THEN tx ELSE o.ref_tx],
                         [accs EXCEPT ![tx.cid] = o.account],
                         o.result)
        ELSE Outcome(t, accs, "CidMismatch")

\* Variant of with_tx: the client id of the record is not compared.
with_tx_any_client(t, a, tx, op) ==
    LET accs == or_default(a, tx.cid)
    IN  IF tx.txid \notin DOMAIN t
        THEN Outcome(t, accs, "TxNotFound")
        ELSE LET o == call_op(op, t[tx.txid], accs[tx.cid])
             IN  Outcome([t EXCEPT ![tx.txid] = o.ref_tx],
                         [accs EXCEPT ![tx.cid] = o.account],
                         o.result)

\* Variant of with_tx: a missing record is reported as a client mismatch.
with_tx_wrong_error(t, a, tx, op) ==
    LET accs == or_default(a, tx.cid)
    IN  IF tx.txid \notin DOMAIN t
        THEN Outcome(t, accs, "CidMismatch")
        ELSE IF t[tx.txid].cid = tx.cid
        THEN LET o == call_op(op, t[tx.txid], accs[tx.cid])
             IN  Outcome([t EXCEPT ![tx.txid] = o.ref_tx],
                         [accs EXCEPT ![tx.cid] = o.account],
                         o.result)
        ELSE Outcome(t, accs, "CidMismatch")

\* Variant of with_tx: the client id of the record is not compared and the
\* closure works on the account of the client that owns the record.
with_tx_owner_account(t, a, tx, op) ==
    LET accs == or_default(a, tx.cid)
    IN  IF tx.txid \notin DOMAIN t
        THEN Outcome(t, accs, "TxNotFound")
        ELSE LET owner == t[tx.txid].cid
                 o == call_op(op, t[tx.txid], accs[owner])
             IN  Outcome([t EXCEPT ![tx.txid] = o.ref_tx],
                         [accs EXCEPT ![owner] = o.account],
                         o.result)

with_tx(t, a, tx, op) ==
    LET accs == or_default(a, tx.cid)
    IN  IF tx.txid \notin DOMAIN t
        THEN Outcome(t, accs, "TxNotFound")
        ELSE IF t[tx.txid].cid = tx.cid
        THEN LET o == call_op(op, t[tx.txid], accs[tx.cid])
             IN  Outcome([t EXCEPT ![tx.txid] = o.ref_tx],
                         [accs EXCEPT ![tx.cid] = o.account],
                         o.result)
        ELSE Outcome(t, accs, "CidMismatch")

\* Variant of process_tx: the dispatch looks at the kind only, so an amount
\* on a dispute, resolve or chargeback is ignored.
process_tx_kind_only(t, a, tx) ==
    IF is_locked(a, tx.cid)
    THEN Outcome(t, a, "AccountIsLocked")
    ELSE IF tx.kind = "Deposit" /\ tx.amount # None
    THEN process_operation(t, a, tx, unwrap(tx.amount), "checked_add")
    ELSE IF tx.kind = "Withdrawal" /\ tx.amount # None
    THEN process_operation(t, a, tx, unwrap(tx.amount), "checked_sub")
    ELSE IF tx.kind = "Dispute"
    THEN with_tx(t, a, tx, "dispute_op")
    ELSE IF tx.kind = "Resolve"
    THEN with_tx(t, a, tx, "resolve_op")
    ELSE IF tx.kind = "ChargeBack"
    THEN with_tx(t, a, tx, "charge_back_op")
    ELSE Outcome(t, a, "InvalidTx")

process_tx(t, a, tx) ==
    IF is_locked(a, tx.cid)
    THEN Outcome(t, a, "AccountIsLocked")
    ELSE IF tx.kind = "Deposit" /\ tx.amount # None
    THEN process_operation(t, a, tx, unwrap(tx.amount), "checked_add")
    ELSE IF tx.kind = "Withdrawal" /\ tx.amount # None
    THEN process_operation(t, a, tx, unwrap(tx.amount), "checked_sub")
    ELSE IF tx.kind = "Dispute" /\ tx.amount = None
    THEN with_tx(t, a, tx, "dispute_op")
    ELSE IF tx.kind = "Resolve" /\ tx.amount = None
    THEN with_tx(t, a, tx, "resolve_op")
    ELSE IF tx.kind = "ChargeBack" /\ tx.amount = None
    THEN with_tx(t, a, tx, "charge_back_op")
    ELSE Outcome(t, a, "InvalidTx")

(***************************************************************************)
(* State machine.  txs and accounts are the two maps of Txs.  panicked is  *)
(* true once a call of process_tx has unwound; a panic ends the run and    *)
(* nothing is processed after it.  net and disputeSeen are history         *)
(* variables: per client, the accepted deposits minus the accepted         *)
(* withdrawals; whether any dispute, resolve or chargeback has been        *)
(* submitted so far; and the ids whose chargeback has been accepted.       *)
(***************************************************************************)
\* The transactions a run can submit, by constructor.
DepositTxs ==
    {Tx_deposit(cid, txid, amount) :
         cid \in Cids, txid \in Txids, amount \in Amounts}

WithdrawalTxs ==
    {Tx_withdrawal(cid, txid, amount) :
         cid \in Cids, txid \in Txids, amount \in Amounts}

DisputeTxs == {Tx_dispute(cid, txid) : cid \in Cids, txid \in Txids}

ResolveTxs == {Tx_resolve(cid, txid) : cid \in Cids, txid \in Txids}

ChargeBackTxs == {Tx_charge_back(cid, txid) : cid \in Cids, txid \in Txids}

\* Deserialized rows whose (kind, amount) pair is none of the five shapes
\* the constructors build: amount missing on a deposit or withdrawal, or
\* present on a dispute, resolve or chargeback.  process_tx reads neither
\* the amount nor the transaction id of such a row, so one value of each
\* stands for all.
MalformedTxs ==
    {Tx(kind, cid, 1, None) : kind \in {"Deposit", "Withdrawal"}, cid \in Cids}
    \cup
    {Tx(kind, cid, 1, Some(DecimalMAX)) :
         kind \in {"Dispute", "Resolve", "ChargeBack"}, cid \in Cids}

\* Txs::new
Init ==
    /\ txs = <<>>
    /\ accounts = <<>>
    /\ panicked = FALSE
    /\ net = [c \in Cids |-> 0]
    /\ disputeSeen = FALSE
    /\ chargedBack = {}

\* Variant of Apply: the first rejected row ends the run, as
\* `txs.process_tx(tx)?` would.
Apply_stops_on_error(tx) ==
    /\ ~panicked
    /\ LET o == process_tx(txs, accounts, tx)
       IN  /\ txs' = o.txs
           /\ accounts' = o.accounts
           /\ panicked' = (o.result # "Ok")
           /\ net' = IF o.result = "Ok" /\ tx.kind = "Deposit"
                     THEN [net EXCEPT ![tx.cid] = @ + unwrap(tx.amount)]
                     ELSE IF o.result = "Ok" /\ tx.kind = "Withdrawal"
                     THEN [net EXCEPT ![tx.cid] = @ - unwrap(tx.amount)]
                     ELSE net
           /\ chargedBack' = IF o.result = "Ok" /\ tx.kind = "ChargeBack"
                             THEN chargedBack \cup {tx.txid}
                             ELSE chargedBack
    /\ disputeSeen' =
           (disputeSeen \/ tx.kind \in {"Dispute", "Resolve", "ChargeBack"})

\* One iteration of the loop of process_transactions: txs.process_tx(tx).
Apply(tx) ==
    /\ ~panicked
    /\ LET o == process_tx(txs, accounts, tx)
       IN  /\ txs' = o.txs
           /\ accounts' = o.accounts
           /\ panicked' = (o.result = "Panic")
           /\ net' = IF o.result = "Ok" /\ tx.kind = "Deposit"
                     THEN [net EXCEPT ![tx.cid] = @ + unwrap(tx.amount)]
                     ELSE IF o.result = "Ok" /\ tx.kind = "Withdrawal"
                     THEN [net EXCEPT ![tx.cid] = @ - unwrap(tx.amount)]
                     ELSE net
           /\ chargedBack' = IF o.result = "Ok" /\ tx.kind = "ChargeBack"
                             THEN chargedBack \cup {tx.txid}
                             ELSE chargedBack
    /\ disputeSeen' =
           (disputeSeen \/ tx.kind \in {"Dispute", "Resolve", "ChargeBack"})

deposit == \E tx \in DepositTxs : Apply(tx)

withdrawal == \E tx \in WithdrawalTxs : Apply(tx)

dispute == \E tx \in DisputeTxs : Apply(tx)

resolve == \E tx \in ResolveTxs : Apply(tx)

charge_back == \E tx \in ChargeBackTxs : Apply(tx)

malformed == \E tx \in MalformedTxs : Apply(tx)

Next ==
    \/ deposit
    \/ withdrawal
    \/ dispute
    \/ resolve
    \/ charge_back
    \/ malformed

Spec == Init /\ [][Next]_vars

(***************************************************************************)
(* Runs of a caller of the library.  The methods Txs::deposit,             *)
(* Txs::withdrawal, Txs::dispute, Txs::resolve and Txs::charge_back build  *)
(* the transaction with the matching constructor and hand it to            *)
(* process_tx, so a caller that uses them never submits a malformed        *)
(* transaction.                                                            *)
(***************************************************************************)
NextApi ==
    \/ deposit
    \/ withdrawal
    \/ dispute
    \/ resolve
    \/ charge_back

SpecApi == Init /\ [][NextApi]_vars

(***************************************************************************)
(* Runs of a single client.  A run that needs three transaction ids of one *)
(* client (two deposits and a third deposit or withdrawal) is explored     *)
(* with one client and the ids 1..MaxTxidOneClient.                        *)
(***************************************************************************)
OneClientTxids == 1..MaxTxidOneClient

OneClientDepositTxs ==
    {Tx_deposit(1, txid, amount) : txid \in OneClientTxids, amount \in Amounts}

OneClientWithdrawalTxs ==
    {Tx_withdrawal(1, txid, amount) :
         txid \in OneClientTxids, amount \in Amounts}

OneClientTxs ==
    OneClientDepositTxs \cup OneClientWithdrawalTxs
    \cup {Tx_dispute(1, txid) : txid \in OneClientTxids}
    \cup {Tx_resolve(1, txid) : txid \in OneClientTxids}
    \cup {Tx_charge_back(1, txid) : txid \in OneClientTxids}

NextOneClient == \E tx \in OneClientTxs : Apply(tx)

SpecOneClient == Init /\ [][NextOneClient]_vars

TypeOK ==
    /\ DOMAIN txs \subseteq Txids
    /\ \A t \in DOMAIN txs :
           /\ txs[t].kind \in {"Deposit", "Withdrawal"}
           /\ txs[t].txid = t
           /\ txs[t].cid \in Cids
           /\ txs[t].amount # None
    /\ DOMAIN accounts \subseteq Cids
    /\ \A c \in DOMAIN accounts :
           /\ accounts[c].locked \in BOOLEAN
           /\ accounts[c].available \in Decimals
    /\ panicked \in BOOLEAN
    /\ chargedBack \subseteq DOMAIN txs

(***************************************************************************)
(* Helpers of the properties.                                              *)
(***************************************************************************)
\* What process_tx does with tx in the current state.
Call(tx) == process_tx(txs, accounts, tx)

\* What process_tx does with tx2 right after it has processed tx1.
CallAfter(tx1, tx2) == process_tx(Call(tx1).txs, Call(tx1).accounts, tx2)

DisputeFamilyTxs == DisputeTxs \cup ResolveTxs \cup ChargeBackTxs

Transactions ==
    DepositTxs \cup WithdrawalTxs \cup DisputeFamilyTxs \cup MalformedTxs

\* available of a client, 0 when the client has no account yet.
AvailableOf(accs, cid) ==
    IF cid \in DOMAIN accs THEN accs[cid].available ELSE 0

\* A stored record keeps everything but its disputed flag.
SameIdentity(r1, r2) ==
    /\ r1.kind = r2.kind
    /\ r1.cid = r2.cid
    /\ r1.txid = r2.txid
    /\ r1.amount = r2.amount

(***************************************************************************)
(* C1 (as stated): whenever process_tx returns an error, for any           *)
(* transaction and from any reachable state, the history map, every        *)
(* record's disputed flag, every account's fields and the set of clients   *)
(* for which get(cid) returns an account are all unchanged.                *)
(***************************************************************************)
C1_NoMutationOnError ==
    \A tx \in Transactions :
        Call(tx).result \in Error =>
            (Call(tx).txs = txs /\ Call(tx).accounts = accounts)

(***************************************************************************)
(* C1 (amended): whenever process_tx returns an error, the history map,    *)
(* every record's disputed flag and the fields of every account that       *)
(* existed before the call are unchanged; the only change a rejection can  *)
(* make is to create the zero-balance, unlocked account of the             *)
(* transaction's own client when that client had none, and AccountIsLocked *)
(* and InvalidTx rejections do not even do that.                           *)
(***************************************************************************)
C1_ErrorOnlyCreatesDefaultAccount ==
    \A tx \in Transactions :
        LET o == Call(tx)
        IN  o.result \in Error =>
                /\ o.txs = txs
                /\ DOMAIN accounts \subseteq DOMAIN o.accounts
                /\ \A c \in DOMAIN accounts : o.accounts[c] = accounts[c]
                /\ DOMAIN o.accounts \subseteq DOMAIN accounts \cup {tx.cid}
                /\ \A c \in DOMAIN o.accounts \ DOMAIN accounts :
                       o.accounts[c] = Account_default
                /\ o.result \in {"AccountIsLocked", "InvalidTx"} =>
                       o.accounts = accounts

\* Rejected transactions have run: a client has an account although no
\* transaction of that client was ever accepted, next to a client whose
\* deposit is stored.
C1_Witness ==
    \E c \in DOMAIN accounts :
        /\ get(c) = Some(Account_default)
        /\ net[c] = 0
        /\ \A t \in DOMAIN txs : txs[t].cid # c
        /\ DOMAIN txs # {}

(***************************************************************************)
(* C2: once an account is locked it stays locked, none of its fields ever  *)
(* changes again, and every later transaction carrying its client id       *)
(* returns AccountIsLocked.                                                *)
(***************************************************************************)
C2_LockedIsFinal ==
    /\ [][\A c \in DOMAIN accounts :
              accounts[c].locked =>
                  (c \in DOMAIN accounts' /\ accounts'[c] = accounts[c])]_vars
    /\ [](\A tx \in Transactions :
              is_locked(accounts, tx.cid) =>
                  Call(tx).result = "AccountIsLocked")

\* A chargeback has locked the account of a client, and a deposit has since
\* been accepted for another client.
C2_Witness ==
    \E c \in DOMAIN accounts :
        /\ accounts[c].locked
        /\ Call(Tx_deposit(c, MaxTxid, 1)).result = "AccountIsLocked"
        /\ \E d \in DOMAIN accounts : d # c /\ accounts[d].available > 0

(***************************************************************************)
(* C3 (as stated): the same Deposit applied twice in a row succeeds the    *)
(* first time and returns TxAlreadyExists the second time, and available   *)
(* reflects one application.                                               *)
(***************************************************************************)
C3_SecondDepositTxAlreadyExists ==
    \A tx \in DepositTxs :
        Call(tx).result = "Ok" =>
            /\ CallAfter(tx, tx).result = "TxAlreadyExists"
            /\ CallAfter(tx, tx).accounts = Call(tx).accounts

(***************************************************************************)
(* C3 (amended): the same Deposit applied twice in a row succeeds the      *)
(* first time and is rejected the second time, leaving the ledger with     *)
(* exactly one application of the amount.  The second rejection is         *)
(* TxAlreadyExists when available + amount lies in [0, Decimal::MAX]; it   *)
(* is MathError when that sum overflows and InsuffienctFunds when it is    *)
(* negative, because both checks precede the look-up of the id.            *)
(***************************************************************************)
C3_SecondDepositRejected ==
    \A tx \in DepositTxs :
        LET first == Call(tx)
            second == process_tx(first.txs, first.accounts, tx)
            sum == first.accounts[tx.cid].available + unwrap(tx.amount)
        IN  first.result = "Ok" =>
                /\ second.accounts = first.accounts
                /\ second.txs = first.txs
                /\ first.accounts[tx.cid].available =
                       AvailableOf(accounts, tx.cid) + unwrap(tx.amount)
                /\ second.result = IF sum \notin Decimals THEN "MathError"
                                   ELSE IF sum < 0 THEN "InsuffienctFunds"
                                   ELSE "TxAlreadyExists"

\* A deposit has been accepted and stored; submitted again as it is, it is
\* rejected as a duplicate and available still holds one application.
C3_Witness ==
    \E t \in DOMAIN txs :
        /\ txs[t].kind = "Deposit"
        /\ txs[t] \in DepositTxs
        /\ Call(txs[t]).result = "TxAlreadyExists"
        /\ accounts[txs[t].cid].available = unwrap(txs[t].amount)
        /\ Call(txs[t]).accounts = accounts

(***************************************************************************)
(* C4: transaction ids are unique across the ledger: a Deposit or          *)
(* Withdrawal is never accepted with an id already in history, whichever   *)
(* client stored it, and a stored record is never overwritten.             *)
(***************************************************************************)
C4_TxidUnique ==
    /\ [][\A t \in DOMAIN txs :
              t \in DOMAIN txs' /\ SameIdentity(txs'[t], txs[t])]_vars
    /\ [](\A tx \in DepositTxs \cup WithdrawalTxs :
              tx.txid \in DOMAIN txs =>
                  LET o == Call(tx)
                  IN  o.result # "Ok" /\ o.txs = txs)

\* The history holds a record of one client, and another client that has
\* the funds reuses its id: the transaction is rejected with TxAlreadyExists.
C4_Witness ==
    \E tx \in DepositTxs \cup WithdrawalTxs :
        /\ tx.txid \in DOMAIN txs
        /\ txs[tx.txid].cid # tx.cid
        /\ AvailableOf(accounts, tx.cid) >= 1
        /\ Call(tx).result = "TxAlreadyExists"

(***************************************************************************)
(* C5: as long as no dispute, resolve or chargeback has been submitted,    *)
(* each client's available equals the sum of its accepted deposits minus   *)
(* the sum of its accepted withdrawals, and held is 0.                     *)
(***************************************************************************)
C5_Conservation ==
    ~disputeSeen =>
        \A c \in Cids :
            /\ AvailableOf(accounts, c) = net[c]
            /\ c \in DOMAIN accounts => accounts[c].held = 0

\* A deposit and a smaller withdrawal of one client have been accepted, with
\* no dispute so far.
C5_Witness ==
    /\ ~disputeSeen
    /\ \E t, u \in DOMAIN txs :
           /\ txs[t].kind = "Deposit"
           /\ txs[u].kind = "Withdrawal"
           /\ txs[u].cid = txs[t].cid
           /\ unwrap(txs[u].amount) > 0
           /\ unwrap(txs[t].amount) > unwrap(txs[u].amount)
           /\ net[txs[t].cid] = unwrap(txs[t].amount) - unwrap(txs[u].amount)

(***************************************************************************)
(* C6: when an accepted Dispute is immediately followed by an accepted     *)
(* Resolve of the same transaction id, the account's available, held and   *)
(* locked are exactly what they were before the Dispute and the record's   *)
(* disputed flag is false again.                                           *)
(***************************************************************************)
C6_DisputeResolveRoundTrip ==
    \A tx \in DisputeTxs :
        LET disputed == Call(tx)
            resolved == CallAfter(tx, Tx_resolve(tx.cid, tx.txid))
        IN  (disputed.result = "Ok" /\ resolved.result = "Ok") =>
                /\ resolved.accounts[tx.cid] = accounts[tx.cid]
                /\ disputed.txs[tx.txid].disputed
                /\ ~resolved.txs[tx.txid].disputed
                /\ resolved.txs = txs

\* A deposit of a positive amount is stored, part of it withdrawn; its
\* dispute is accepted and moves the amount to held, and the resolve that
\* follows is accepted too.
C6_Witness ==
    \E tx \in DisputeTxs :
        /\ Call(tx).result = "Ok"
        /\ CallAfter(tx, Tx_resolve(tx.cid, tx.txid)).result = "Ok"
        /\ unwrap(txs[tx.txid].amount) > 0
        /\ accounts[tx.cid].available < unwrap(txs[tx.txid].amount)
        /\ Call(tx).accounts[tx.cid].held =
               accounts[tx.cid].held + unwrap(txs[tx.txid].amount)

(***************************************************************************)
(* C7 (as stated): a Withdrawal whose amount exceeds the account's         *)
(* available (0 for a client without an account) returns InsuffienctFunds  *)
(* and leaves available unchanged, and after every accepted Withdrawal     *)
(* available is >= 0.                                                      *)
(***************************************************************************)
C7_WithdrawalInsufficientFunds ==
    \A tx \in WithdrawalTxs :
        LET o == Call(tx)
        IN  /\ unwrap(tx.amount) > AvailableOf(accounts, tx.cid) =>
                   /\ o.result = "InsuffienctFunds"
                   /\ AvailableOf(o.accounts, tx.cid) =
                          AvailableOf(accounts, tx.cid)
            /\ o.result = "Ok" => o.accounts[tx.cid].available >= 0

(***************************************************************************)
(* C7 (amended): a Withdrawal never drives available negative.  A          *)
(* Withdrawal whose amount exceeds the account's available (0 for a client *)
(* without an account) is rejected and leaves available unchanged: with    *)
(* AccountIsLocked when the account is locked, otherwise with MathError    *)
(* when available - amount underflows the decimal range and with           *)
(* InsuffienctFunds when it does not.  After every accepted Withdrawal     *)
(* available is >= 0.                                                      *)
(***************************************************************************)
C7_WithdrawalNeverNegative ==
    \A tx \in WithdrawalTxs :
        LET o == Call(tx)
            available == AvailableOf(accounts, tx.cid)
        IN  /\ unwrap(tx.amount) > available =>
                   /\ o.result =
                          IF is_locked(accounts, tx.cid)
                          THEN "AccountIsLocked"
                          ELSE IF available - unwrap(tx.amount) \notin Decimals
                          THEN "MathError"
                          ELSE "InsuffienctFunds"
                   /\ AvailableOf(o.accounts, tx.cid) = available
            /\ o.result = "Ok" =>
                   /\ o.accounts[tx.cid].available >= 0
                   /\ o.accounts[tx.cid].available =
                          available - unwrap(tx.amount)

\* A client holds less than Decimal::MAX after an accepted withdrawal; a
\* withdrawal of more than it holds is rejected with InsuffienctFunds.
C7_Witness ==
    \E tx \in WithdrawalTxs :
        /\ tx.cid \in DOMAIN accounts
        /\ \E t \in DOMAIN txs :
               txs[t].kind = "Withdrawal" /\ txs[t].cid = tx.cid
        /\ accounts[tx.cid].available >= 0
        /\ unwrap(tx.amount) > accounts[tx.cid].available
        /\ Call(tx).result = "InsuffienctFunds"

(***************************************************************************)
(* C8: a withdrawal can never be disputed: a Dispute by the owning,        *)
(* unlocked client that references a stored Withdrawal returns             *)
(* TxMustBeDeposit, and the disputed flag of a stored Withdrawal is false  *)
(* in every reachable state.                                               *)
(***************************************************************************)
C8_WithdrawalNeverDisputed ==
    /\ \A t \in DOMAIN txs : txs[t].kind = "Withdrawal" => ~txs[t].disputed
    /\ \A tx \in DisputeTxs :
           (/\ ~is_locked(accounts, tx.cid)
            /\ tx.txid \in DOMAIN txs
            /\ txs[tx.txid].cid = tx.cid
            /\ txs[tx.txid].kind = "Withdrawal") =>
               LET o == Call(tx)
               IN  o.result = "TxMustBeDeposit" /\ o.txs = txs

\* A withdrawal of a positive amount is stored next to the disputed deposit
\* of the same client; the owner's dispute of the withdrawal returns
\* TxMustBeDeposit.
C8_Witness ==
    \E tx \in DisputeTxs :
        /\ tx.txid \in DOMAIN txs
        /\ txs[tx.txid].kind = "Withdrawal"
        /\ txs[tx.txid].cid = tx.cid
        /\ unwrap(txs[tx.txid].amount) > 0
        /\ \E t \in DOMAIN txs : txs[t].cid = tx.cid /\ txs[t].disputed
        /\ Call(tx).result = "TxMustBeDeposit"

(***************************************************************************)
(* C9 (as stated): a Dispute, Resolve or Chargeback whose client id        *)
(* differs from the client id of the stored record it references is        *)
(* rejected with CidMismatch; the record's disputed flag and the owner's   *)
(* account do not change, and a record's disputed flag only changes in a   *)
(* transaction carrying the record's own client id.                        *)
(***************************************************************************)
C9_CidMismatch ==
    /\ \A tx \in DisputeFamilyTxs :
           (tx.txid \in DOMAIN txs /\ txs[tx.txid].cid # tx.cid) =>
               LET o == Call(tx)
               IN  /\ o.result = "CidMismatch"
                   /\ o.txs[tx.txid] = txs[tx.txid]
                   /\ o.accounts[txs[tx.txid].cid] =
                          accounts[txs[tx.txid].cid]
    /\ \A tx \in Transactions :
           LET o == Call(tx)
           IN  \A t \in DOMAIN txs :
                   o.txs[t].disputed # txs[t].disputed => tx.cid = txs[t].cid

(***************************************************************************)
(* C9 (amended): a Dispute, Resolve or Chargeback whose client id differs  *)
(* from the client id of the stored record it references is rejected:      *)
(* with CidMismatch when the account of the transaction's client is not    *)
(* locked, with AccountIsLocked when it is.  The record's disputed flag    *)
(* and the owner's account do not change, and a record's disputed flag     *)
(* only changes in a transaction carrying the record's own client id.      *)
(***************************************************************************)
C9_ForeignClientRejected ==
    /\ \A tx \in DisputeFamilyTxs :
           (tx.txid \in DOMAIN txs /\ txs[tx.txid].cid # tx.cid) =>
               LET o == Call(tx)
               IN  /\ o.result = IF is_locked(accounts, tx.cid)
                                  THEN "AccountIsLocked"
                                  ELSE "CidMismatch"
                   /\ o.txs[tx.txid] = txs[tx.txid]
                   /\ o.accounts[txs[tx.txid].cid] =
                          accounts[txs[tx.txid].cid]
    /\ \A tx \in Transactions :
           LET o == Call(tx)
           IN  \A t \in DOMAIN txs :
                   o.txs[t].disputed # txs[t].disputed => tx.cid = txs[t].cid

\* A deposit of one client is under dispute; the chargeback of it by another
\* client, which has an account of its own, returns CidMismatch.
C9_Witness ==
    \E tx \in ChargeBackTxs :
        /\ tx.txid \in DOMAIN txs
        /\ txs[tx.txid].cid # tx.cid
        /\ txs[tx.txid].disputed
        /\ tx.cid \in DOMAIN accounts
        /\ Call(tx).result = "CidMismatch"

(***************************************************************************)
(* C10: a Dispute, Resolve or Chargeback of a client whose account is not  *)
(* locked that references a transaction id absent from history is          *)
(* rejected with TxNotFound, for all three kinds.                          *)
(***************************************************************************)
C10_TxNotFound ==
    \A tx \in DisputeFamilyTxs :
        (~is_locked(accounts, tx.cid) /\ tx.txid \notin DOMAIN txs) =>
            LET o == Call(tx)
            IN  o.result = "TxNotFound" /\ o.txs = txs

\* The history holds a record of a client, and that client's dispute,
\* resolve and chargeback of an id that is not in history all return
\* TxNotFound.
C10_Witness ==
    \E cid \in DOMAIN accounts, txid \in Txids \ DOMAIN txs :
        /\ \E t \in DOMAIN txs : txs[t].cid = cid
        /\ Call(Tx_dispute(cid, txid)).result = "TxNotFound"
        /\ Call(Tx_resolve(cid, txid)).result = "TxNotFound"
        /\ Call(Tx_charge_back(cid, txid)).result = "TxNotFound"

(***************************************************************************)
(* C11: a Resolve or Chargeback by the owning client, whose account is not *)
(* locked, that references a stored record whose disputed flag is false is *)
(* rejected with TxNotDisputed and changes nothing; a Resolve or           *)
(* Chargeback changes an account or a record only when the record it       *)
(* references is currently disputed and belongs to its client.             *)
(***************************************************************************)
C11_TxNotDisputed ==
    \A tx \in ResolveTxs \cup ChargeBackTxs :
        LET o == Call(tx)
        IN  /\ (/\ ~is_locked(accounts, tx.cid)
                /\ tx.txid \in DOMAIN txs
                /\ txs[tx.txid].cid = tx.cid
                /\ ~txs[tx.txid].disputed) =>
                   /\ o.result = "TxNotDisputed"
                   /\ o.txs = txs
                   /\ o.accounts = accounts
            /\ (o.txs # txs \/ o.accounts # or_default(accounts, tx.cid)) =>
                   /\ tx.txid \in DOMAIN txs
                   /\ txs[tx.txid].disputed
                   /\ txs[tx.txid].cid = tx.cid

\* A client has one deposit under dispute (held is not zero) and another
\* stored deposit that is not disputed; its resolve and its chargeback of
\* the latter both return TxNotDisputed.
C11_Witness ==
    \E cid \in DOMAIN accounts, txid \in DOMAIN txs :
        /\ txs[txid].cid = cid
        /\ txs[txid].kind = "Deposit"
        /\ ~txs[txid].disputed
        /\ accounts[cid].held # 0
        /\ Call(Tx_resolve(cid, txid)).result = "TxNotDisputed"
        /\ Call(Tx_charge_back(cid, txid)).result = "TxNotDisputed"

(***************************************************************************)
(* C12: a Dispute by the owning client, whose account is not locked, of a  *)
(* stored record that is already disputed is rejected with                 *)
(* TxAlreadyDisputed; available, held, locked and the record's disputed    *)
(* flag (true) are unchanged, so the amount is not moved to held twice.    *)
(***************************************************************************)
C12_TxAlreadyDisputed ==
    \A tx \in DisputeTxs :
        (/\ ~is_locked(accounts, tx.cid)
         /\ tx.txid \in DOMAIN txs
         /\ txs[tx.txid].cid = tx.cid
         /\ txs[tx.txid].disputed) =>
            LET o == Call(tx)
            IN  /\ txs[tx.txid].kind = "Deposit"
                /\ o.result = "TxAlreadyDisputed"
                /\ o.txs = txs
                /\ o.accounts = accounts

\* A deposit of a positive amount is under dispute, its amount is held, and
\* the owner's second dispute of it returns TxAlreadyDisputed.
C12_Witness ==
    \E tx \in DisputeTxs :
        /\ tx.txid \in DOMAIN txs
        /\ txs[tx.txid].cid = tx.cid
        /\ txs[tx.txid].disputed
        /\ unwrap(txs[tx.txid].amount) > 0
        /\ accounts[tx.cid].held = unwrap(txs[tx.txid].amount)
        /\ ~accounts[tx.cid].locked
        /\ Call(tx).result = "TxAlreadyDisputed"

(***************************************************************************)
(* C13: in every reachable state available + held of every account lies    *)
(* within the decimal range: a Deposit or Withdrawal of an unlocked client  *)
(* with a fresh id whose new available fits but whose new available + held *)
(* does not is rejected with MathError, and no accepted transaction of any  *)
(* kind takes the sum outside the range.                                    *)
(***************************************************************************)
C13_TotalInDomain ==
    ~panicked =>
        /\ \A c \in DOMAIN accounts :
               accounts[c].available + accounts[c].held \in Decimals
        /\ \A tx \in OneClientDepositTxs \cup OneClientWithdrawalTxs :
               LET account == or_default(accounts, tx.cid)[tx.cid]
                   new_available ==
                       IF tx.kind = "Deposit"
                       THEN account.available + unwrap(tx.amount)
                       ELSE account.available - unwrap(tx.amount)
               IN  (/\ ~account.locked
                    /\ tx.txid \notin DOMAIN txs
                    /\ new_available \in 0..DecimalMAX
                    /\ new_available + account.held \notin Decimals) =>
                       /\ Call(tx).result = "MathError"
                       /\ Call(tx).txs = txs
        /\ \A tx \in OneClientTxs :
               Call(tx).result = "Ok" =>
                   Call(tx).accounts[tx.cid].available
                       + Call(tx).accounts[tx.cid].held \in Decimals

C15_DepositAccepted ==
    ~panicked =>
        \A tx \in OneClientDepositTxs :
            LET o == Call(tx)
                account == or_default(accounts, tx.cid)[tx.cid]
                amount == unwrap(tx.amount)
            IN  amount > 0 =>
                    /\ (/\ ~account.locked
                        /\ tx.txid \notin DOMAIN txs
                        /\ account.available + amount \in Decimals
                        /\ account.available + amount + account.held
                               \in Decimals) =>
                           /\ o.result = "Ok"
                           /\ tx.txid \in DOMAIN o.txs
                           /\ o.txs[tx.txid] = tx
                           /\ o.accounts[tx.cid] =
                                  [account EXCEPT
                                       !.available = account.available + amount]
                    /\ o.result \in {"Ok", "AccountIsLocked", "MathError",
                                      "TxAlreadyExists"}

(***************************************************************************)
(* C16: a Dispute is not gated on available funds: for a stored deposit     *)
(* that is not disputed and is owned by the client, whose account is not    *)
(* locked, the Dispute always succeeds and sets available to                *)
(* available - amount and held to held + amount, also when part or all of   *)
(* the deposit has been withdrawn and available becomes negative.           *)
(***************************************************************************)
C16_DisputeNotGatedOnFunds ==
    ~panicked =>
        \A tx \in {Tx_dispute(1, txid) : txid \in OneClientTxids} :
            (/\ ~is_locked(accounts, tx.cid)
             /\ tx.txid \in DOMAIN txs
             /\ txs[tx.txid].cid = tx.cid
             /\ txs[tx.txid].kind = "Deposit"
             /\ ~txs[tx.txid].disputed) =>
                LET o == Call(tx)
                    amount == unwrap(txs[tx.txid].amount)
                IN  /\ o.result = "Ok"
                    /\ o.accounts[tx.cid] =
                           [accounts[tx.cid] EXCEPT !.available = @ - amount,
                                                    !.held = @ + amount]
                    /\ o.txs = [txs EXCEPT ![tx.txid].disputed = TRUE]

(***************************************************************************)
(* C17: an accepted Chargeback acts on a currently disputed deposit of its *)
(* client: it decreases held by exactly the deposit's amount, sets the     *)
(* account's locked flag, resets the record's disputed flag, and leaves    *)
(* available, every other account and every other record unchanged.        *)
(***************************************************************************)
C17_ChargeBackFrame ==
    \A tx \in ChargeBackTxs :
        LET o == Call(tx)
        IN  o.result = "Ok" =>
                /\ tx.txid \in DOMAIN txs
                /\ txs[tx.txid].kind = "Deposit"
                /\ txs[tx.txid].cid = tx.cid
                /\ txs[tx.txid].disputed
                /\ o.txs = [txs EXCEPT ![tx.txid].disputed = FALSE]
                /\ o.accounts =
                       [accounts EXCEPT
                            ![tx.cid] =
                                Account(@.available,
                                        @.held - unwrap(txs[tx.txid].amount),
                                        TRUE)]

\* A deposit of a positive amount is under dispute and its amount held,
\* while another client has a stored deposit and an account with funds; the
\* owner's chargeback is accepted, releases held and locks the account.
C17_Witness ==
    \E tx \in ChargeBackTxs :
        /\ Call(tx).result = "Ok"
        /\ unwrap(txs[tx.txid].amount) > 0
        /\ accounts[tx.cid].held = unwrap(txs[tx.txid].amount)
        /\ ~accounts[tx.cid].locked
        /\ Call(tx).accounts[tx.cid].locked
        /\ Call(tx).accounts[tx.cid].held = 0
        /\ \E c \in DOMAIN accounts : c # tx.cid /\ accounts[c].available > 0
        /\ \E t \in DOMAIN txs : t # tx.txid

(***************************************************************************)
(* C18 (as stated): a transaction whose (kind, amount) pair is none of the *)
(* five valid shapes is rejected with InvalidTx from every reachable state *)
(* and changes nothing: no history entry and no account is created or      *)
(* changed.                                                                *)
(***************************************************************************)
C18_InvalidTx ==
    \A tx \in MalformedTxs :
        LET o == Call(tx)
        IN  o.result = "InvalidTx" /\ o.txs = txs /\ o.accounts = accounts

(***************************************************************************)
(* C18 (amended): a transaction whose (kind, amount) pair is none of the   *)
(* five valid shapes is rejected from every reachable state and changes    *)
(* nothing: with InvalidTx when the account of its client is absent or not *)
(* locked, with AccountIsLocked when it is locked.                         *)
(***************************************************************************)
C18_MalformedRejected ==
    \A tx \in MalformedTxs :
        LET o == Call(tx)
        IN  /\ o.result = IF is_locked(accounts, tx.cid)
                          THEN "AccountIsLocked"
                          ELSE "InvalidTx"
            /\ o.txs = txs
            /\ o.accounts = accounts

\* A client has no account and a deposit of another client is under
\* dispute: a deposit without an amount of the former and a dispute with an
\* amount of the latter, naming the disputed deposit, both return InvalidTx.
C18_Witness ==
    \E c \in Cids \ DOMAIN accounts, t \in DOMAIN txs :
        /\ txs[t].disputed
        /\ ~accounts[txs[t].cid].locked
        /\ Call(Tx("Deposit", c, t, None)).result = "InvalidTx"
        /\ Call(Tx("Resolve", txs[t].cid, t, Some(DecimalMAX))).result
               = "InvalidTx"
        /\ Call(Tx("ChargeBack", txs[t].cid, t, Some(DecimalMAX))).result
               = "InvalidTx"

(***************************************************************************)
(* C19: chargeback is terminal for a transaction id: once a Chargeback of  *)
(* a record has been accepted, the record's disputed flag is false in      *)
(* every later state and no later Dispute, Resolve or Chargeback naming    *)
(* that id is accepted, whichever client submits it.                       *)
(***************************************************************************)
C19_ChargeBackTerminal ==
    \A t \in chargedBack :
        /\ t \in DOMAIN txs
        /\ ~txs[t].disputed
        /\ is_locked(accounts, txs[t].cid)
        /\ \A tx \in DisputeFamilyTxs :
               tx.txid = t =>
                   LET o == Call(tx)
                   IN  o.result \in Error /\ o.txs = txs

\* A deposit has been charged back; since then another client has stored a
\* deposit of its own.  The owner's dispute of the charged-back id returns
\* AccountIsLocked and the other client's returns CidMismatch.
C19_Witness ==
    \E t \in chargedBack, c \in DOMAIN accounts :
        /\ c # txs[t].cid
        /\ accounts[c].available > 0
        /\ Call(Tx_dispute(txs[t].cid, t)).result = "AccountIsLocked"
        /\ Call(Tx_dispute(c, t)).result = "CidMismatch"
        /\ Call(Tx_charge_back(c, t)).result = "CidMismatch"

(***************************************************************************)
(* C20: in every reachable state the history holds only Deposit and        *)
(* Withdrawal records, each under its own id and with its amount; an       *)
(* accepted Deposit or Withdrawal adds exactly its own record and a        *)
(* rejected one adds nothing; a Dispute, Resolve or Chargeback never adds  *)
(* a record; and no transaction removes a record or changes the kind,      *)
(* client id, transaction id or amount of one (only its disputed flag).    *)
(***************************************************************************)
C20_HistoryRecords ==
    /\ \A t \in DOMAIN txs :
           /\ txs[t].kind \in {"Deposit", "Withdrawal"}
           /\ txs[t].txid = t
           /\ txs[t].amount # None
    /\ \A tx \in DepositTxs \cup WithdrawalTxs :
           LET o == Call(tx)
           IN  IF o.result = "Ok"
               THEN /\ tx.txid \notin DOMAIN txs
                    /\ o.txs = txs @@ (tx.txid :> tx)
               ELSE o.txs = txs
    /\ \A tx \in DisputeFamilyTxs \cup MalformedTxs :
           LET o == Call(tx)
           IN  /\ DOMAIN o.txs = DOMAIN txs
               /\ \A t \in DOMAIN txs : SameIdentity(o.txs[t], txs[t])

\* The history holds a deposit, currently disputed, and a withdrawal of
\* the same client; a resolve of the deposit is accepted and a deposit with
\* one of the two ids is rejected.
C20_Witness ==
    \E t, u \in DOMAIN txs :
        /\ txs[t].kind = "Deposit"
        /\ txs[t].disputed
        /\ txs[u].kind = "Withdrawal"
        /\ txs[u].cid = txs[t].cid
        /\ Call(Tx_resolve(txs[t].cid, t)).result = "Ok"
        /\ Call(Tx_deposit(txs[t].cid, u, 1)).result \in Error

(***************************************************************************)
(* C21: the unchecked arithmetic never leaves the decimal range: over any  *)
(* sequence of transactions the commit step of every Dispute, Resolve and  *)
(* Chargeback keeps available and held each within [-MAX, MAX], so         *)
(* process_tx never unwinds, also when several deposits of one client      *)
(* whose amounts sum above MAX are disputed.                               *)
(***************************************************************************)
C21_NeverPanics ==
    /\ ~panicked
    /\ \A c \in DOMAIN accounts :
           accounts[c].available \in Decimals /\ accounts[c].held \in Decimals
    /\ \A tx \in OneClientTxs : Call(tx).result # "Panic"

(***************************************************************************)
(* The stored deposits of client cid that are under dispute, and the sum   *)
(* of the amounts of a set of stored records.                              *)
(***************************************************************************)
DisputedDepositsOf(t, cid) ==
    {txid \in DOMAIN t :
        t[txid].cid = cid /\ t[txid].kind = "Deposit" /\ t[txid].disputed}

SumOfAmounts(t, ids) ==
    LET sum[S \in SUBSET ids] ==
            IF S = {} THEN 0
            ELSE LET txid == CHOOSE x \in S : TRUE
                 IN  unwrap(t[txid].amount) + sum[S \ {txid}]
    IN  sum[ids]

(***************************************************************************)
(* C22: in every reachable state the held of each account is the sum of    *)
(* the amounts of the stored deposits of that client whose disputed flag   *)
(* is set (0 when there is none); when those amounts are positive, held is *)
(* not negative.                                                           *)
(***************************************************************************)
C22_HeldIsDisputedSum ==
    \A c \in DOMAIN accounts :
        LET ids == DisputedDepositsOf(txs, c)
        IN  /\ accounts[c].held = SumOfAmounts(txs, ids)
            /\ (\A txid \in ids : unwrap(txs[txid].amount) > 0)
                   => accounts[c].held >= 0

C22_Witness ==
    \E c \in DOMAIN accounts :
        /\ Cardinality(DisputedDepositsOf(txs, c)) = 2
        /\ accounts[c].held = DecimalMAX
        /\ \E d \in DOMAIN accounts \ {c} :
               /\ accounts[d].held = 0
               /\ DisputedDepositsOf(txs, d) = {}

(***************************************************************************)
(* C23: client isolation.  A transaction of client c, accepted or          *)
(* rejected, changes no account of another client (an account is created   *)
(* for c only) and no stored record of another client, its disputed flag   *)
(* included; a record it stores belongs to c.  The one effect on other     *)
(* clients is that the id of an accepted deposit or withdrawal is taken:   *)
(* no other client's deposit or withdrawal with that id is accepted        *)
(* afterwards.                                                             *)
(***************************************************************************)
C23_ClientIsolation ==
    \A tx \in Transactions :
        LET o == Call(tx)
        IN  /\ DOMAIN o.accounts \subseteq DOMAIN accounts \cup {tx.cid}
            /\ \A c \in DOMAIN accounts \ {tx.cid} :
                   o.accounts[c] = accounts[c]
            /\ DOMAIN o.txs \subseteq DOMAIN txs \cup {tx.txid}
            /\ \A txid \in DOMAIN txs :
                   txs[txid].cid # tx.cid => o.txs[txid] = txs[txid]
            /\ \A txid \in DOMAIN o.txs \ DOMAIN txs :
                   o.txs[txid].cid = tx.cid
            /\ (o.result = "Ok" /\ tx.kind \in {"Deposit", "Withdrawal"})
                   => \A tx2 \in DepositTxs \cup WithdrawalTxs :
                          (tx2.txid = tx.txid /\ tx2.cid # tx.cid)
                              => process_tx(o.txs, o.accounts, tx2).result
                                     # "Ok"

C23_Witness ==
    \E c \in DOMAIN accounts, d \in DOMAIN accounts, txid \in DOMAIN txs :
        /\ c # d
        /\ txs[txid].cid = c
        /\ txs[txid].disputed
        /\ accounts[c].held > 0
        /\ ~accounts[d].locked
        /\ \E txid2 \in DOMAIN txs : txs[txid2].cid = d
        /\ Call(Tx_charge_back(d, txid)).result = "CidMismatch"
        /\ Call(Tx_deposit(d, txid, 1)).result = "TxAlreadyExists"

====
